---- MODULE Spec2Model ----
(***************************************************************************)
(* Model of src/shared/netif-naming-scheme.c: the naming-scheme registry   *)
(* and its memoized resolution, the name-policy string tables and the      *)
(* sysattr visibility filter.                                              *)
(*                                                                         *)
(* A C string is a sequence of one-character strings; the null pointer of  *)
(* type char* is the distinguished value NULL.  A pointer into the         *)
(* naming_schemes array is the 1-based index of the element, 0 for the     *)
(* null pointer.                                                           *)
(***************************************************************************)
EXTENDS Integers, Sequences, FiniteSets, TLC

VARIABLES
    extra,        \* build: the entries EXTRA_NET_NAMING_MAP expands to
    defaultName,  \* build: DEFAULT_NET_NAMING_SCHEME
    fname, fret,  \* last naming_scheme_from_name() call: argument, result
    boot,         \* value of net.naming-scheme on the kernel command line
    env,          \* value of $NET_NAMING_SCHEME
    cache,        \* static const NamingScheme *cache of naming_scheme()
    ncalls,       \* number of completed naming_scheme() calls
    ret,          \* result of the last naming_scheme() call
    firstRet,     \* result of the first naming_scheme() call
    log,          \* diagnostics emitted by the last call (all calls, when threaded)
    cfgReads,     \* configuration sources read by the last call
    lookups,      \* naming_scheme_from_name() arguments of the last call
    callBoot, callEnv, \* the configuration in force when the last call ran
    pc, buffer, e, k, tret, \* per thread: position, locals, returned value
    own,          \* per thread: the value it last stored to cache, -1 before
    aborted,      \* assert(cache) failed
    dev, sysattr, accessor, result, trace, \* last filtered accessor call
    polTable, polIn, polOut, strTable, strIn, strOut \* last policy table lookups

vars == <<extra, defaultName, fname, fret, boot, env, cache, ncalls, ret,
          firstRet, log, cfgReads, lookups, callBoot, callEnv, pc, buffer, e,
          k, tret, own, aborted, dev, sysattr, accessor, result, trace, polTable,
          polIn, polOut, strTable, strIn, strOut>>

buildVars   == <<extra, defaultName>>
findVars    == <<fname, fret>>
resolveVars == <<boot, env, cache, ncalls, ret, firstRet, log, cfgReads,
                 lookups, callBoot, callEnv>>
threadVars  == <<pc, buffer, e, k, tret, own, aborted>>
filterVars  == <<dev, sysattr, accessor, result, trace>>
policyVars  == <<polTable, polIn, polOut, strTable, strIn, strOut>>

----------------------------------------------------------------------------
(* Strings *)

NULL == <<"NULL">>

s_v238 == <<"v","2","3","8">>
s_v239 == <<"v","2","3","9">>
s_v240 == <<"v","2","4","0">>
s_v241 == <<"v","2","4","1">>
s_v243 == <<"v","2","4","3">>
s_v245 == <<"v","2","4","5">>
s_v247 == <<"v","2","4","7">>
s_v249 == <<"v","2","4","9">>
s_v250 == <<"v","2","5","0">>
s_v251 == <<"v","2","5","1">>
s_v252 == <<"v","2","5","2">>
s_rhel == <<"r","h","e","l","-">>
s_rhel_8_0  == s_rhel \o <<"8",".","0">>
s_rhel_8_1  == s_rhel \o <<"8",".","1">>
s_rhel_8_2  == s_rhel \o <<"8",".","2">>
s_rhel_8_3  == s_rhel \o <<"8",".","3">>
s_rhel_8_4  == s_rhel \o <<"8",".","4">>
s_rhel_8_5  == s_rhel \o <<"8",".","5">>
s_rhel_8_6  == s_rhel \o <<"8",".","6">>
s_rhel_8_7  == s_rhel \o <<"8",".","7">>
s_rhel_8_8  == s_rhel \o <<"8",".","8">>
s_rhel_8_9  == s_rhel \o <<"8",".","9">>
s_rhel_8_10 == s_rhel \o <<"8",".","1","0">>
s_rhel_9_0  == s_rhel \o <<"9",".","0">>
s_rhel_9_1  == s_rhel \o <<"9",".","1">>
s_rhel_9_2  == s_rhel \o <<"9",".","2">>
s_latest    == <<"l","a","t","e","s","t">>
s_gargoyle  == <<"g","a","r","g","o","y","l","e">>
s_bogus     == <<"b","o","g","u","s">>
s_empty     == << >>
s_V243      == <<"V","2","4","3">>
s_Latest    == <<"L","a","t","e","s","t">>
s_v24       == <<"v","2","4">>

streq(a, b) == a = b

----------------------------------------------------------------------------
(* The registry *)

BaseSchemes ==
    << [name |-> s_v238, flags |-> "NAMING_V238"],
       [name |-> s_v239, flags |-> "NAMING_V239"],
       [name |-> s_v240, flags |-> "NAMING_V240"],
       [name |-> s_v241, flags |-> "NAMING_V241"],
       [name |-> s_v243, flags |-> "NAMING_V243"],
       [name |-> s_v245, flags |-> "NAMING_V245"],
       [name |-> s_v247, flags |-> "NAMING_V247"],
       [name |-> s_v249, flags |-> "NAMING_V249"],
       [name |-> s_v250, flags |-> "NAMING_V250"],
       [name |-> s_v251, flags |-> "NAMING_V251"],
       [name |-> s_v252, flags |-> "NAMING_V252"],
       [name |-> s_rhel_8_0, flags |-> "NAMING_RHEL_8_0"],
       [name |-> s_rhel_8_1, flags |-> "NAMING_RHEL_8_1"],
       [name |-> s_rhel_8_2, flags |-> "NAMING_RHEL_8_2"],
       [name |-> s_rhel_8_3, flags |-> "NAMING_RHEL_8_3"],
       [name |-> s_rhel_8_4, flags |-> "NAMING_RHEL_8_4"],
       [name |-> s_rhel_8_5, flags |-> "NAMING_RHEL_8_5"],
       [name |-> s_rhel_8_6, flags |-> "NAMING_RHEL_8_6"],
       [name |-> s_rhel_8_7, flags |-> "NAMING_RHEL_8_7"],
       [name |-> s_rhel_8_8, flags |-> "NAMING_RHEL_8_8"],
       [name |-> s_rhel_8_9, flags |-> "NAMING_RHEL_8_9"],
       [name |-> s_rhel_8_10, flags |-> "NAMING_RHEL_8_10"],
       [name |-> s_rhel_9_0, flags |-> "NAMING_RHEL_9_0"],
       [name |-> s_rhel_9_1, flags |-> "NAMING_RHEL_9_1"],
       [name |-> s_rhel_9_2, flags |-> "NAMING_RHEL_9_2"] >>

\* The expansions of EXTRA_NET_NAMING_MAP the model is built with: none, an
\* explicit "latest", an extra scheme, and an explicit "latest" that is not
\* the last element.
ExtraMaps ==
    { << >>,
      << [name |-> s_latest, flags |-> "NAMING_V250"] >>,
      << [name |-> s_gargoyle, flags |-> "NAMING_V238"] >>,
      << [name |-> s_latest, flags |-> "NAMING_RHEL_9_0"],
         [name |-> s_gargoyle, flags |-> "NAMING_V238"] >> }

\* The values of DEFAULT_NET_NAMING_SCHEME the model is built with; each
\* resolves in every table above.
DefaultNames == { s_latest, s_rhel_9_0 }

naming_schemes == BaseSchemes \o extra

ELEMENTSOF(a) == Len(a)

RECURSIVE from_name_loop(_, _)
from_name_loop(name, i) ==
    IF i > ELEMENTSOF(naming_schemes) THEN 0
    ELSE IF streq(naming_schemes[i].name, name) THEN i
    ELSE from_name_loop(name, i + 1)

\* Mutant: "latest" is tested before the table is searched.
naming_scheme_from_name_latest_first(name) ==
    IF streq(name, s_latest) THEN ELEMENTSOF(naming_schemes)
    ELSE from_name_loop(name, 1)

naming_scheme_from_name(name) ==
    LET i == from_name_loop(name, 1)
    IN  IF i # 0 THEN i
        ELSE IF streq(name, s_latest) THEN ELEMENTSOF(naming_schemes)
        ELSE 0

----------------------------------------------------------------------------
(* Initial values *)

InitBuild ==
    /\ extra \in ExtraMaps
    /\ defaultName \in DefaultNames

IdleFind == fname = NULL /\ fret = 0

IdleResolve ==
    /\ boot = NULL /\ env = NULL /\ cache = 0 /\ ncalls = 0 /\ ret = 0
    /\ firstRet = 0 /\ log = << >> /\ cfgReads = << >> /\ lookups = << >>
    /\ callBoot = NULL /\ callEnv = NULL

IdleThreads ==
    /\ pc = << >> /\ buffer = << >> /\ e = << >> /\ k = << >> /\ tret = << >>
    /\ own = << >>
    /\ aborted = FALSE

IdleFilter ==
    /\ dev = << >> /\ sysattr = NULL /\ accessor = "none"
    /\ result = << >> /\ trace = << >>

IdlePolicy ==
    /\ polTable = "none" /\ polIn = 0 /\ polOut = NULL
    /\ strTable = "none" /\ strIn = NULL /\ strOut = 0

----------------------------------------------------------------------------
(* Registry lookups on their own *)

NameInputs ==
    { s_v238, s_v243, s_v249, s_v252, s_rhel_8_10, s_rhel_9_0, s_rhel_9_2,
      s_latest, s_gargoyle, s_bogus, s_empty, s_V243, s_Latest, s_v24 }

FromName(name) ==
    /\ fname' = name
    /\ fret' = naming_scheme_from_name(name)
    /\ UNCHANGED <<buildVars, resolveVars, threadVars, filterVars, policyVars>>

InitFind ==
    InitBuild /\ IdleFind /\ IdleResolve /\ IdleThreads /\ IdleFilter /\ IdlePolicy

NextFind == \E name \in NameInputs : FromName(name)

SpecFind == InitFind /\ [][NextFind]_vars

\* C5: naming_scheme_from_name(name) is the entry whose name equals name
\* exactly when there is one (also for "latest"); otherwise the last entry of
\* the table when name is "latest"; otherwise the null pointer.
C5_FindReference ==
    fname # NULL =>
        LET exact == { i \in 1..Len(naming_schemes) : naming_schemes[i].name = fname }
        IN  /\ exact # {} => fret \in exact
            /\ exact = {} /\ fname = s_latest => fret = Len(naming_schemes)
            /\ exact = {} /\ fname # s_latest => fret = 0

\* An explicit "latest" that is not the last element has been looked up.
C5_Witness ==
    /\ fname = s_latest
    /\ fret # 0 /\ fret # Len(naming_schemes)
    /\ naming_schemes[fret].name = s_latest

----------------------------------------------------------------------------
(* naming_scheme(), one caller at a time *)

MaxCalls == 2

s_colon        == <<":">>
s_colon_v249   == s_colon \o s_v249
s_colon_bogus  == s_colon \o s_bogus
s_colon_latest == s_colon \o s_latest

BootInputs == { NULL, s_v243, s_v249, s_rhel_9_2, s_bogus, s_empty }
EnvInputs  == { NULL, s_v243, s_v249, s_latest, s_bogus, s_empty, s_colon,
                s_colon_v249, s_colon_bogus, s_colon_latest }

\* proc_cmdline_get_key("net.naming-scheme", 0, &buffer): buffer receives the
\* value of the key, and stays NULL when the key is not set.
proc_cmdline_get_key(cmdline) == cmdline

getenv(environment) == environment

\* Diagnostics: the format string and its %s argument.
log_info_using(name)      == [level |-> "info", fmt |-> "Using interface naming scheme", arg |-> name]
log_warning_unknown(name) == [level |-> "warning", fmt |-> "Unknown interface naming scheme requested, ignoring", arg |-> name]
log_info_default(name)    == [level |-> "info", fmt |-> "Using default interface naming scheme", arg |-> name]

\* Mutant: the ':' prefix is not recognised, the env var always wins.
select_candidate_env_always(buf, ee) ==
    IF ee # NULL THEN ee ELSE buf

\* Lines 78-85: the candidate k from buffer and e.
select_candidate(buf, ee) ==
    IF ee # NULL
    THEN IF Len(ee) > 0 /\ Head(ee) = ":"
         THEN IF buf # NULL THEN buf ELSE Tail(ee)
         ELSE ee
    ELSE buf

\* Mutant: a candidate that is the empty string counts as no candidate.
has_candidate_nonempty(kk) == kk # NULL /\ kk # s_empty

\* Line 87, if (k): the candidate pointer is not null.
has_candidate(kk) == kk # NULL

CfgReads == << "net.naming-scheme", "NET_NAMING_SCHEME" >>

\* Lines 89-91: the candidate named the entry c1.
use_found(kk, c1) ==
    [cache |-> c1, ret |-> c1, failed |-> FALSE,
     log |-> << log_info_using(naming_schemes[c1].name) >>,
     cfgReads |-> CfgReads, lookups |-> << kk >>]

\* Mutant: before the default, the boot value is tried when the candidate
\* named no entry.
use_default_try_boot(buf, kk) ==
    LET cb == IF buf # NULL THEN naming_scheme_from_name(buf) ELSE 0
        c2 == IF cb # 0 THEN cb ELSE naming_scheme_from_name(defaultName)
    IN  [cache |-> c2, ret |-> c2, failed |-> c2 = 0,
         log |-> (IF has_candidate(kk) /\ cb = 0 THEN << log_warning_unknown(kk) >> ELSE << >>)
                 \o (IF c2 # 0 THEN << log_info_default(naming_schemes[c2].name) >> ELSE << >>),
         cfgReads |-> CfgReads,
         lookups |-> (IF has_candidate(kk) THEN << kk >> ELSE << >>) \o << defaultName >>]

\* Lines 94-101: the warning when there was a candidate, then the default
\* scheme; assert(cache) fails when the default names no entry.
use_default(buf, kk) ==
    LET c2 == naming_scheme_from_name(defaultName)
    IN  [cache |-> c2, ret |-> c2, failed |-> c2 = 0,
         log |-> (IF has_candidate(kk) THEN << log_warning_unknown(kk) >> ELSE << >>)
                 \o (IF c2 # 0 THEN << log_info_default(naming_schemes[c2].name) >> ELSE << >>),
         cfgReads |-> CfgReads,
         lookups |-> (IF has_candidate(kk) THEN << kk >> ELSE << >>) \o << defaultName >>]

\* Lines 73-101: the resolution made when the cache is empty.
resolve_uncached(cmdline, environment) ==
    LET buf == proc_cmdline_get_key(cmdline)
        ee  == getenv(environment)
        kk  == select_candidate(buf, ee)
        c1  == IF has_candidate(kk) THEN naming_scheme_from_name(kk) ELSE 0
    IN  IF c1 # 0 THEN use_found(kk, c1) ELSE use_default(buf, kk)

\* Mutant: no early return on a filled cache.
naming_scheme_no_memo(c, cmdline, environment) ==
    resolve_uncached(cmdline, environment)

\* naming_scheme() run to completion by a single caller, from the cache c and
\* the configuration in force: the new cache, the returned pointer, whether
\* assert(cache) failed, and what the call read, looked up and logged.
naming_scheme(c, cmdline, environment) ==
    IF c # 0
    THEN [cache |-> c, ret |-> c, failed |-> FALSE, log |-> << >>,
          cfgReads |-> << >>, lookups |-> << >>]
    ELSE resolve_uncached(cmdline, environment)

\* A call of naming_scheme().
Resolve ==
    /\ ncalls < MaxCalls
    /\ ~aborted
    /\ LET r == naming_scheme(cache, boot, env)
       IN  /\ cache' = r.cache
           /\ ret' = r.ret
           /\ aborted' = r.failed
           /\ log' = r.log
           /\ cfgReads' = r.cfgReads
           /\ lookups' = r.lookups
           /\ firstRet' = IF ncalls = 0 THEN r.ret ELSE firstRet
    /\ ncalls' = ncalls + 1
    /\ callBoot' = boot
    /\ callEnv' = env
    /\ UNCHANGED <<boot, env, pc, buffer, e, k, tret, own>>
    /\ UNCHANGED <<buildVars, findVars, filterVars, policyVars>>

\* The kernel command line the process sees changes.
SetBoot(v) ==
    /\ ncalls < MaxCalls
    /\ v # boot
    /\ boot' = v
    /\ UNCHANGED <<env, cache, ncalls, ret, firstRet, log, cfgReads, lookups, callBoot, callEnv>>
    /\ UNCHANGED <<buildVars, findVars, threadVars, filterVars, policyVars>>

\* setenv()/unsetenv() of NET_NAMING_SCHEME.
SetEnv(v) ==
    /\ ncalls < MaxCalls
    /\ v # env
    /\ env' = v
    /\ UNCHANGED <<boot, cache, ncalls, ret, firstRet, log, cfgReads, lookups, callBoot, callEnv>>
    /\ UNCHANGED <<buildVars, findVars, threadVars, filterVars, policyVars>>

InitResolve ==
    InitBuild /\ IdleFind /\ IdleResolve /\ IdleThreads /\ IdleFilter /\ IdlePolicy

NextResolve ==
    \/ Resolve
    \/ \E v \in BootInputs : SetBoot(v)
    \/ \E v \in EnvInputs : SetEnv(v)

SpecResolve == InitResolve /\ [][NextResolve]_vars

Warnings(l) == { i \in 1..Len(l) : l[i].level = "warning" }
Registered(name) == \E i \in 1..Len(naming_schemes) : naming_schemes[i].name = name

\* C1: every call of naming_scheme() returns the entry the first call
\* returned, whatever the configuration has become, and a call after the
\* first reads no configuration source and logs nothing.
C1_Memoized ==
    /\ ncalls >= 1 => ret = firstRet /\ ret # 0 /\ cache = firstRet
    /\ ncalls >= 2 => cfgReads = << >> /\ log = << >> /\ lookups = << >>

\* A second call ran under a configuration that names another scheme than
\* the one the first call resolved.
C1_Witness ==
    /\ ncalls = 2
    /\ callEnv = s_v249 /\ callBoot = NULL
    /\ naming_schemes[firstRet].name = s_v243

\* The candidate, as the precedence rule of the specification words it.
RefCandidate(b, ev) ==
    CASE ev = NULL -> b
      [] ev # NULL /\ (ev = s_empty \/ ev[1] # ":") -> ev
      [] ev # NULL /\ ev # s_empty /\ ev[1] = ":" /\ b # NULL -> b
      [] ev # NULL /\ ev # s_empty /\ ev[1] = ":" /\ b = NULL -> SubSeq(ev, 2, Len(ev))

InC3Domain(b, ev) ==
    /\ b = NULL \/ Registered(b)
    /\ \/ ev = NULL
       \/ Registered(ev)
       \/ ev # s_empty /\ ev[1] = ":" /\ Registered(SubSeq(ev, 2, Len(ev)))

\* C3: on the first call, with the boot value absent or registered and the
\* env value absent, registered or ':' + registered, the result is the entry
\* named by the candidate of the precedence rule.
C3_Precedence ==
    ncalls = 1 /\ InC3Domain(callBoot, callEnv) =>
        LET cand == RefCandidate(callBoot, callEnv)
        IN  /\ cand # NULL => ret # 0 /\ naming_schemes[ret].name = cand
            /\ callBoot = s_v243 /\ callEnv = NULL => naming_schemes[ret].name = s_v243
            /\ callBoot = s_v243 /\ callEnv = s_v249 => naming_schemes[ret].name = s_v249
            /\ callBoot = s_v243 /\ callEnv = s_colon_v249 => naming_schemes[ret].name = s_v243
            /\ callBoot = NULL /\ callEnv = s_colon_v249 => naming_schemes[ret].name = s_v249

\* The first call ran with boot=v243 and env=:v249 and resolved v243.
C3_Witness ==
    /\ ncalls = 1 /\ callBoot = s_v243 /\ callEnv = s_colon_v249
    /\ naming_schemes[ret].name = s_v243

\* C4: on the first call, a candidate that names no entry and is not
\* "latest" gives exactly one warning, naming the candidate, and the default
\* scheme's entry is returned and cached; no configuration at all gives the
\* default without a warning.
C4_Degrade ==
    ncalls = 1 =>
        LET cand == RefCandidate(callBoot, callEnv)
            dflt == naming_scheme_from_name(defaultName)
        IN  /\ ~aborted /\ ret # 0
            /\ cand # NULL /\ ~Registered(cand) /\ cand # s_latest =>
                  /\ Cardinality(Warnings(log)) = 1
                  /\ \A i \in Warnings(log) : log[i].arg = cand
                  /\ ret = dflt /\ cache = dflt
            /\ callBoot = NULL /\ callEnv = NULL =>
                  /\ Warnings(log) = {}
                  /\ ret = dflt /\ cache = dflt

\* The first call ran with env=:v249 and boot=bogus and resolved the default
\* (which is not v249) with a warning.
C4_Witness ==
    /\ ncalls = 1 /\ callBoot = s_bogus /\ callEnv = s_colon_v249
    /\ Warnings(log) # {}
    /\ ret = naming_scheme_from_name(defaultName)
    /\ naming_schemes[ret].name # s_v249

\* C9 as claimed: with the empty string as candidate, the first call looks
\* nothing up under that name, logs no warning, and returns the default with
\* the informational diagnostic only.
C9_EmptyCandidateSkipped ==
    ncalls = 1 /\ RefCandidate(callBoot, callEnv) = s_empty =>
        /\ \A i \in 1..Len(lookups) : lookups[i] # s_empty
        /\ Warnings(log) = {}
        /\ ret = naming_scheme_from_name(defaultName)
        /\ Len(log) = 1 /\ log[1].level = "info"

\* C9 as amended: the lookup is attempted whenever the candidate is present,
\* the empty string included and only skipped when there is no candidate;
\* the empty string names no entry, so one warning naming it is logged before
\* the default is returned with its informational diagnostic.
C9_EmptyCandidateLookedUp ==
    ncalls = 1 =>
        LET cand == RefCandidate(callBoot, callEnv)
            dflt == naming_scheme_from_name(defaultName)
        IN  /\ cand = NULL => lookups = << defaultName >> /\ Warnings(log) = {}
            /\ cand # NULL => Len(lookups) >= 1 /\ lookups[1] = cand
            /\ cand = s_empty =>
                  /\ lookups = << s_empty, defaultName >>
                  /\ log = << log_warning_unknown(s_empty),
                              log_info_default(naming_schemes[dflt].name) >>
                  /\ ret = dflt

\* The first call ran with env=":" and no boot value.
C9_Witness ==
    /\ ncalls = 1 /\ callBoot = NULL /\ callEnv = s_colon
    /\ lookups = << s_empty, defaultName >>

----------------------------------------------------------------------------
(* naming_scheme() called by several threads, one statement per step *)

NThreads == 2

Threads == 1..NThreads

ThreadBoot == { NULL, s_v243, s_bogus }
ThreadEnv  == { NULL, s_v249, s_bogus, s_colon_v249 }

\* cache is a plain static pointer read and written without synchronisation.
\* A load by thread t yields what memory holds, or what t itself stored last
\* (the compiler may keep that value in a register).
LoadCache(t) == { cache } \cup (IF own[t] # -1 THEN { own[t] } ELSE {})

halted == aborted \/ \E t \in Threads : pc[t] = "crashed"

Goto(t, l) == pc' = [pc EXCEPT ![t] = l]

ThreadFrame ==
    /\ UNCHANGED <<boot, env, ncalls, ret, firstRet, cfgReads, lookups, callBoot, callEnv>>
    /\ UNCHANGED <<buildVars, findVars, filterVars, policyVars>>

\* Lines 70-71: if (cache) return cache;
L70(t) ==
    /\ ~halted /\ pc[t] = "L70"
    /\ \E c \in LoadCache(t) :
          IF c # 0
          THEN /\ tret' = [tret EXCEPT ![t] = c] /\ Goto(t, "done")
          ELSE /\ tret' = tret /\ Goto(t, "L74")
    /\ UNCHANGED <<buffer, e, k, own, aborted, cache, log>>
    /\ ThreadFrame

\* Line 74: (void) proc_cmdline_get_key("net.naming-scheme", 0, &buffer);
L74(t) ==
    /\ ~halted /\ pc[t] = "L74"
    /\ buffer' = [buffer EXCEPT ![t] = proc_cmdline_get_key(boot)]
    /\ Goto(t, "L77")
    /\ UNCHANGED <<e, k, tret, own, aborted, cache, log>>
    /\ ThreadFrame

\* Line 77: e = getenv("NET_NAMING_SCHEME");
L77(t) ==
    /\ ~halted /\ pc[t] = "L77"
    /\ e' = [e EXCEPT ![t] = getenv(env)]
    /\ Goto(t, "L78")
    /\ UNCHANGED <<buffer, k, tret, own, aborted, cache, log>>
    /\ ThreadFrame

\* Lines 78-85: the if statement that assigns k.
L78(t) ==
    /\ ~halted /\ pc[t] = "L78"
    /\ k' = [k EXCEPT ![t] = select_candidate(buffer[t], e[t])]
    /\ Goto(t, "L87")
    /\ UNCHANGED <<buffer, e, tret, own, aborted, cache, log>>
    /\ ThreadFrame

\* Line 87: if (k)
L87(t) ==
    /\ ~halted /\ pc[t] = "L87"
    /\ IF has_candidate(k[t]) THEN Goto(t, "L88") ELSE Goto(t, "L97")
    /\ UNCHANGED <<buffer, e, k, tret, own, aborted, cache, log>>
    /\ ThreadFrame

\* Line 88: cache = naming_scheme_from_name(k);
L88(t) ==
    /\ ~halted /\ pc[t] = "L88"
    /\ cache' = naming_scheme_from_name(k[t])
    /\ own' = [own EXCEPT ![t] = naming_scheme_from_name(k[t])]
    /\ Goto(t, "L89")
    /\ UNCHANGED <<buffer, e, k, tret, aborted, log>>
    /\ ThreadFrame

\* Line 89: if (cache)
L89(t) ==
    /\ ~halted /\ pc[t] = "L89"
    /\ \E c \in LoadCache(t) : IF c # 0 THEN Goto(t, "L90") ELSE Goto(t, "L94")
    /\ UNCHANGED <<buffer, e, k, tret, own, aborted, cache, log>>
    /\ ThreadFrame

\* Line 90: log_info("Using interface naming scheme '%s'.", cache->name);
L90(t) ==
    /\ ~halted /\ pc[t] = "L90"
    /\ \E c \in LoadCache(t) :
          IF c # 0
          THEN /\ log' = [log EXCEPT ![t] = Append(@, log_info_using(naming_schemes[c].name))]
               /\ Goto(t, "L91")
          ELSE /\ log' = log /\ Goto(t, "crashed")
    /\ UNCHANGED <<buffer, e, k, tret, own, aborted, cache>>
    /\ ThreadFrame

\* Line 91: return cache;
L91(t) ==
    /\ ~halted /\ pc[t] = "L91"
    /\ \E c \in LoadCache(t) : tret' = [tret EXCEPT ![t] = c]
    /\ Goto(t, "done")
    /\ UNCHANGED <<buffer, e, k, own, aborted, cache, log>>
    /\ ThreadFrame

\* Line 94: log_warning("Unknown interface naming scheme '%s' requested, ignoring.", k);
L94(t) ==
    /\ ~halted /\ pc[t] = "L94"
    /\ log' = [log EXCEPT ![t] = Append(@, log_warning_unknown(k[t]))]
    /\ Goto(t, "L97")
    /\ UNCHANGED <<buffer, e, k, tret, own, aborted, cache>>
    /\ ThreadFrame

\* Line 97: cache = naming_scheme_from_name(DEFAULT_NET_NAMING_SCHEME);
L97(t) ==
    /\ ~halted /\ pc[t] = "L97"
    /\ cache' = naming_scheme_from_name(defaultName)
    /\ own' = [own EXCEPT ![t] = naming_scheme_from_name(defaultName)]
    /\ Goto(t, "L98")
    /\ UNCHANGED <<buffer, e, k, tret, aborted, log>>
    /\ ThreadFrame

\* Line 98: assert(cache);
L98(t) ==
    /\ ~halted /\ pc[t] = "L98"
    /\ \E c \in LoadCache(t) :
          IF c # 0
          THEN /\ aborted' = FALSE /\ Goto(t, "L99")
          ELSE /\ aborted' = TRUE /\ pc' = pc
    /\ UNCHANGED <<buffer, e, k, tret, own, cache, log>>
    /\ ThreadFrame

\* Line 99: log_info("Using default interface naming scheme '%s'.", cache->name);
L99(t) ==
    /\ ~halted /\ pc[t] = "L99"
    /\ \E c \in LoadCache(t) :
          IF c # 0
          THEN /\ log' = [log EXCEPT ![t] = Append(@, log_info_default(naming_schemes[c].name))]
               /\ Goto(t, "L101")
          ELSE /\ log' = log /\ Goto(t, "crashed")
    /\ UNCHANGED <<buffer, e, k, tret, own, aborted, cache>>
    /\ ThreadFrame

\* Line 101: return cache;
L101(t) ==
    /\ ~halted /\ pc[t] = "L101"
    /\ \E c \in LoadCache(t) : tret' = [tret EXCEPT ![t] = c]
    /\ Goto(t, "done")
    /\ UNCHANGED <<buffer, e, k, own, aborted, cache, log>>
    /\ ThreadFrame

InitThreads ==
    /\ InitBuild /\ IdleFind /\ IdleFilter /\ IdlePolicy
    /\ boot \in ThreadBoot /\ env \in ThreadEnv
    /\ cache = 0 /\ ncalls = 0 /\ ret = 0 /\ firstRet = 0
    /\ cfgReads = << >> /\ lookups = << >> /\ callBoot = NULL /\ callEnv = NULL
    /\ log = [t \in Threads |-> << >>]
    /\ pc = [t \in Threads |-> "L70"]
    /\ buffer = [t \in Threads |-> NULL]
    /\ e = [t \in Threads |-> NULL]
    /\ k = [t \in Threads |-> NULL]
    /\ tret = [t \in Threads |-> 0]
    /\ own = [t \in Threads |-> -1]
    /\ aborted = FALSE

NextThreads ==
    \E t \in Threads :
        \/ L70(t) \/ L74(t) \/ L77(t) \/ L78(t) \/ L87(t) \/ L88(t) \/ L89(t)
        \/ L90(t) \/ L91(t) \/ L94(t) \/ L97(t) \/ L98(t) \/ L99(t) \/ L101(t)

SpecThreads == InitThreads /\ [][NextThreads]_vars

\* C2: with callers racing on an empty cache and the configuration fixed,
\* the cache, once it holds an entry, keeps that entry; every caller that
\* returns, returns that entry and not the null pointer; assert(cache) never
\* fails.
C2_RacingCallersAgree ==
    [][ /\ cache # 0 => cache' = cache
        /\ ~aborted'
        /\ \A t \in Threads : pc'[t] = "done" => tret'[t] # 0 /\ tret'[t] = cache'
      ]_vars

----------------------------------------------------------------------------
(* Name policy tables *)

EINVAL == 22
ENOENT == 2
EIO    == 5

NAMEPOLICY_KERNEL   == 0
NAMEPOLICY_KEEP     == 1
NAMEPOLICY_DATABASE == 2
NAMEPOLICY_ONBOARD  == 3
NAMEPOLICY_SLOT     == 4
NAMEPOLICY_PATH     == 5
NAMEPOLICY_MAC      == 6
_NAMEPOLICY_MAX     == 7

s_kernel   == <<"k","e","r","n","e","l">>
s_keep     == <<"k","e","e","p">>
s_database == <<"d","a","t","a","b","a","s","e">>
s_onboard  == <<"o","n","b","o","a","r","d">>
s_slot     == <<"s","l","o","t">>
s_path     == <<"p","a","t","h">>
s_mac      == <<"m","a","c">>
s_Kernel   == <<"K","e","r","n","e","l">>
s_ma       == <<"m","a">>
s_macs     == <<"m","a","c","s">>

\* An array of _NAMEPOLICY_MAX char pointers, all null.
NullTable == [i \in 0..(_NAMEPOLICY_MAX - 1) |-> NULL]

name_policy_table ==
    (NAMEPOLICY_KERNEL :> s_kernel) @@ (NAMEPOLICY_KEEP :> s_keep)
    @@ (NAMEPOLICY_DATABASE :> s_database) @@ (NAMEPOLICY_ONBOARD :> s_onboard)
    @@ (NAMEPOLICY_SLOT :> s_slot) @@ (NAMEPOLICY_PATH :> s_path)
    @@ (NAMEPOLICY_MAC :> s_mac) @@ NullTable

\* Mutant: the subset table is a copy of the full table.
alternative_names_policy_table_full == name_policy_table

alternative_names_policy_table ==
    (NAMEPOLICY_DATABASE :> s_database) @@ (NAMEPOLICY_ONBOARD :> s_onboard)
    @@ (NAMEPOLICY_SLOT :> s_slot) @@ (NAMEPOLICY_PATH :> s_path)
    @@ (NAMEPOLICY_MAC :> s_mac) @@ NullTable

\* The to_string half of DEFINE_STRING_TABLE_LOOKUP: the element, or NULL
\* for an index outside the array.
string_table_to_string(table, i) ==
    IF i < 0 \/ i >= _NAMEPOLICY_MAX THEN NULL ELSE table[i]

RECURSIVE string_table_loop(_, _, _)
string_table_loop(table, key, i) ==
    IF i >= _NAMEPOLICY_MAX THEN -EINVAL
    ELSE IF table[i] # NULL /\ streq(table[i], key) THEN i
    ELSE string_table_loop(table, key, i + 1)

\* The from_string half: the first index whose string equals key, -EINVAL
\* when there is none or key is NULL.
string_table_lookup(table, key) ==
    IF key = NULL THEN -EINVAL ELSE string_table_loop(table, key, 0)

name_policy_to_string(i)   == string_table_to_string(name_policy_table, i)
name_policy_from_string(s) == string_table_lookup(name_policy_table, s)
alternative_names_policy_to_string(i)   == string_table_to_string(alternative_names_policy_table, i)
alternative_names_policy_from_string(s) == string_table_lookup(alternative_names_policy_table, s)

PolicyInputs == -1.._NAMEPOLICY_MAX
PolicyStrings == { NULL, s_kernel, s_keep, s_database, s_onboard, s_slot, s_path,
                   s_mac, s_Kernel, s_ma, s_macs, s_empty }

NamePolicyToString(i) ==
    /\ polTable' = "name_policy" /\ polIn' = i
    /\ polOut' = name_policy_to_string(i)
    /\ UNCHANGED <<strTable, strIn, strOut>>
    /\ UNCHANGED <<buildVars, findVars, resolveVars, threadVars, filterVars>>

NamePolicyFromString(s) ==
    /\ strTable' = "name_policy" /\ strIn' = s
    /\ strOut' = name_policy_from_string(s)
    /\ UNCHANGED <<polTable, polIn, polOut>>
    /\ UNCHANGED <<buildVars, findVars, resolveVars, threadVars, filterVars>>

AlternativeNamesPolicyToString(i) ==
    /\ polTable' = "alternative_names_policy" /\ polIn' = i
    /\ polOut' = alternative_names_policy_to_string(i)
    /\ UNCHANGED <<strTable, strIn, strOut>>
    /\ UNCHANGED <<buildVars, findVars, resolveVars, threadVars, filterVars>>

AlternativeNamesPolicyFromString(s) ==
    /\ strTable' = "alternative_names_policy" /\ strIn' = s
    /\ strOut' = alternative_names_policy_from_string(s)
    /\ UNCHANGED <<polTable, polIn, polOut>>
    /\ UNCHANGED <<buildVars, findVars, resolveVars, threadVars, filterVars>>

InitPolicy ==
    InitBuild /\ IdleFind /\ IdleResolve /\ IdleThreads /\ IdleFilter /\ IdlePolicy

NextPolicy ==
    \/ \E i \in PolicyInputs : NamePolicyToString(i)
    \/ \E s \in PolicyStrings : NamePolicyFromString(s)
    \/ \E i \in PolicyInputs : AlternativeNamesPolicyToString(i)
    \/ \E s \in PolicyStrings : AlternativeNamesPolicyFromString(s)

SpecPolicy == InitPolicy /\ [][NextPolicy]_vars

FullPolicies == { NAMEPOLICY_KERNEL, NAMEPOLICY_KEEP, NAMEPOLICY_DATABASE,
                  NAMEPOLICY_ONBOARD, NAMEPOLICY_SLOT, NAMEPOLICY_PATH, NAMEPOLICY_MAC }
AlternativePolicies == FullPolicies \ { NAMEPOLICY_KERNEL, NAMEPOLICY_KEEP }
FullNames == { s_kernel, s_keep, s_database, s_onboard, s_slot, s_path, s_mac }
AlternativeNames == FullNames \ { s_kernel, s_keep }

\* C8: the string of a policy of the full set maps back to the policy; so
\* does the string of a policy of the alternative-names subset under the
\* subset's functions; the subset has no string for kernel and keep and no
\* policy for "kernel" and "keep"; a string that is not a name of the table
\* maps to no policy.
C8_PolicyTables ==
    /\ polTable = "name_policy" /\ polIn \in FullPolicies =>
          polOut \in FullNames /\ name_policy_from_string(polOut) = polIn
    /\ polTable = "alternative_names_policy" /\ polIn \in AlternativePolicies =>
          polOut \in AlternativeNames /\ alternative_names_policy_from_string(polOut) = polIn
    /\ polTable = "alternative_names_policy" /\ polIn \in { NAMEPOLICY_KERNEL, NAMEPOLICY_KEEP } =>
          polOut = NULL
    /\ strTable = "alternative_names_policy" /\ strIn \in { s_kernel, s_keep } =>
          strOut \notin FullPolicies
    /\ strTable = "name_policy" /\ strIn \notin FullNames => strOut \notin FullPolicies
    /\ strTable = "alternative_names_policy" /\ strIn \notin AlternativeNames =>
          strOut \notin FullPolicies
    /\ strTable = "name_policy" /\ strIn \in FullNames =>
          strOut \in FullPolicies /\ name_policy_to_string(strOut) = strIn
    /\ strTable = "alternative_names_policy" /\ strIn \in AlternativeNames =>
          strOut \in AlternativePolicies /\ alternative_names_policy_to_string(strOut) = strIn

\* "keep" was looked up in the subset and found no policy, after the subset
\* gave the string of the path policy.
C8_Witness ==
    /\ strTable = "alternative_names_policy" /\ strIn = s_keep /\ strOut = -EINVAL
    /\ polTable = "alternative_names_policy" /\ polIn = NAMEPOLICY_PATH /\ polOut = s_path

----------------------------------------------------------------------------
(* The sysattr filter *)

s_ID_NET_NAME_ALLOW ==
    <<"I","D","_","N","E","T","_","N","A","M","E","_","A","L","L","O","W">>
s_ID_NET_NAME_ALLOW_ == s_ID_NET_NAME_ALLOW \o <<"_">>
s_speed == <<"s","p","e","e","d">>
s_SPEED == <<"S","P","E","E","D">>
s_mtu   == <<"m","t","u">>
s_MTU   == <<"M","T","U">>

LowerCase == <<"a","b","c","d","e","f","g","h","i","j","k","l","m",
               "n","o","p","q","r","s","t","u","v","w","x","y","z">>
UpperCase == <<"A","B","C","D","E","F","G","H","I","J","K","L","M",
               "N","O","P","Q","R","S","T","U","V","W","X","Y","Z">>

ascii_toupper(c) ==
    IF \E i \in 1..26 : LowerCase[i] = c
    THEN UpperCase[CHOOSE i \in 1..26 : LowerCase[i] = c]
    ELSE c

ascii_strupper(s) == [i \in 1..Len(s) |-> ascii_toupper(s[i])]

strjoina(a, b) == a \o b

\* What a device answers to device_get_property_bool() for one key: true,
\* false, not present, not a boolean, or a failed read.
PropertyAnswers == { 1, 0, -ENOENT, -EINVAL, -EIO }

NoValue == <<"none">>

\* What a device answers to the typed read of one sysattr: the return code
\* and the value stored through ret_value.
SysattrAnswers ==
    { [r |-> 0, value |-> <<"4","2">>],
      [r |-> -ENOENT, value |-> NoValue], [r |-> -EIO, value |-> NoValue] }

PropertyKeys ==
    { s_ID_NET_NAME_ALLOW,
      s_ID_NET_NAME_ALLOW_ \o s_SPEED,
      s_ID_NET_NAME_ALLOW_ \o s_speed,
      s_ID_NET_NAME_ALLOW_ \o s_MTU }

Sysattrs == { s_speed, s_mtu }

\* The devices of the model: every answer for the three keys the filter can
\* ask for, and a boolean under the key spelled with the attribute name in
\* lower case, which the filter never asks for.
Devices ==
    [props : { p \in [PropertyKeys -> PropertyAnswers] :
                  p[s_ID_NET_NAME_ALLOW_ \o s_speed] \in {0, 1} },
     sysattrs : [Sysattrs -> SysattrAnswers]]

device_get_property_bool(d, key) ==
    IF key \in DOMAIN d.props THEN d.props[key] ELSE -ENOENT

PropertyRead(key) == [fn |-> "device_get_property_bool", key |-> key]

\* The delegated typed reads: the device's answer, and the call made.
underlying_read(fn, d, attr) ==
    [r |-> d.sysattrs[attr].r, value |-> d.sysattrs[attr].value,
     trace |-> << [fn |-> fn, key |-> attr] >>]

device_get_sysattr_int(d, attr)      == underlying_read("device_get_sysattr_int", d, attr)
device_get_sysattr_unsigned(d, attr) == underlying_read("device_get_sysattr_unsigned", d, attr)
device_get_sysattr_bool(d, attr)     == underlying_read("device_get_sysattr_bool", d, attr)
sd_device_get_sysattr_value(d, attr) == underlying_read("sd_device_get_sysattr_value", d, attr)

naming_sysattr_allowed_by_default(d) ==
    LET r == device_get_property_bool(d, s_ID_NET_NAME_ALLOW)
    IN  [r |-> IF r = -ENOENT THEN 1 ELSE r,
         trace |-> << PropertyRead(s_ID_NET_NAME_ALLOW) >>]

\* Mutant: a denying default is not overridden by the per-attribute property.
naming_sysattr_allowed_default_first(d, attr) ==
    LET dflt == naming_sysattr_allowed_by_default(d)
        sysattr_property == ascii_strupper(strjoina(s_ID_NET_NAME_ALLOW_, attr))
        r == device_get_property_bool(d, sysattr_property)
    IN  IF dflt.r = 0 THEN dflt
        ELSE IF r = -ENOENT
             THEN [r |-> dflt.r, trace |-> dflt.trace \o << PropertyRead(sysattr_property) >>]
             ELSE [r |-> r, trace |-> dflt.trace \o << PropertyRead(sysattr_property) >>]

\* Mutant: any failure of the per-attribute read is taken as "not present".
naming_sysattr_allowed_errors_as_absent(d, attr) ==
    LET sysattr_property == ascii_strupper(strjoina(s_ID_NET_NAME_ALLOW_, attr))
        r == device_get_property_bool(d, sysattr_property)
    IN  IF r < 0
        THEN LET dflt == naming_sysattr_allowed_by_default(d)
             IN  [r |-> dflt.r, trace |-> << PropertyRead(sysattr_property) >> \o dflt.trace]
        ELSE [r |-> r, trace |-> << PropertyRead(sysattr_property) >>]

naming_sysattr_allowed(d, attr) ==
    LET sysattr_property == ascii_strupper(strjoina(s_ID_NET_NAME_ALLOW_, attr))
        r == device_get_property_bool(d, sysattr_property)
    IN  IF r = -ENOENT
        THEN LET dflt == naming_sysattr_allowed_by_default(d)
             IN  [r |-> dflt.r, trace |-> << PropertyRead(sysattr_property) >> \o dflt.trace]
        ELSE [r |-> r, trace |-> << PropertyRead(sysattr_property) >>]

device_get_sysattr_int_filtered(d, attr) ==
    LET a == naming_sysattr_allowed(d, attr)
    IN  IF a.r < 0 THEN [r |-> a.r, value |-> NoValue, trace |-> a.trace]
        ELSE IF a.r = 0 THEN [r |-> -ENOENT, value |-> NoValue, trace |-> a.trace]
        ELSE LET u == device_get_sysattr_int(d, attr)
             IN  [r |-> u.r, value |-> u.value, trace |-> a.trace \o u.trace]

device_get_sysattr_unsigned_filtered(d, attr) ==
    LET a == naming_sysattr_allowed(d, attr)
    IN  IF a.r < 0 THEN [r |-> a.r, value |-> NoValue, trace |-> a.trace]
        ELSE IF a.r = 0 THEN [r |-> -ENOENT, value |-> NoValue, trace |-> a.trace]
        ELSE LET u == device_get_sysattr_unsigned(d, attr)
             IN  [r |-> u.r, value |-> u.value, trace |-> a.trace \o u.trace]

\* Mutant: the attribute is read first and a denied attribute that exists is
\* reported as a failure of its own.
device_get_sysattr_bool_filtered_probe(d, attr) ==
    LET a == naming_sysattr_allowed(d, attr)
        u == device_get_sysattr_bool(d, attr)
    IN  IF a.r < 0 THEN [r |-> a.r, value |-> NoValue, trace |-> a.trace]
        ELSE IF a.r = 0
             THEN [r |-> IF u.r >= 0 THEN -EINVAL ELSE -ENOENT, value |-> NoValue,
                   trace |-> u.trace \o a.trace]
        ELSE [r |-> u.r, value |-> u.value, trace |-> a.trace \o u.trace]

device_get_sysattr_bool_filtered(d, attr) ==
    LET a == naming_sysattr_allowed(d, attr)
    IN  IF a.r < 0 THEN [r |-> a.r, value |-> NoValue, trace |-> a.trace]
        ELSE IF a.r = 0 THEN [r |-> -ENOENT, value |-> NoValue, trace |-> a.trace]
        ELSE LET u == device_get_sysattr_bool(d, attr)
             IN  [r |-> u.r, value |-> u.value, trace |-> a.trace \o u.trace]

device_get_sysattr_value_filtered(d, attr) ==
    LET a == naming_sysattr_allowed(d, attr)
    IN  IF a.r < 0 THEN [r |-> a.r, value |-> NoValue, trace |-> a.trace]
        ELSE IF a.r = 0 THEN [r |-> -ENOENT, value |-> NoValue, trace |-> a.trace]
        ELSE LET u == sd_device_get_sysattr_value(d, attr)
             IN  [r |-> u.r, value |-> u.value, trace |-> a.trace \o u.trace]

FilterFrame ==
    UNCHANGED <<dev, buildVars, findVars, resolveVars, threadVars, policyVars>>

CallAllowed(attr) ==
    /\ accessor' = "naming_sysattr_allowed"
    /\ sysattr' = attr
    /\ result' = [r |-> naming_sysattr_allowed(dev, attr).r, value |-> NoValue]
    /\ trace' = naming_sysattr_allowed(dev, attr).trace
    /\ FilterFrame

CallIntFiltered(attr) ==
    /\ accessor' = "device_get_sysattr_int_filtered"
    /\ sysattr' = attr
    /\ result' = [r |-> device_get_sysattr_int_filtered(dev, attr).r, value |-> device_get_sysattr_int_filtered(dev, attr).value]
    /\ trace' = device_get_sysattr_int_filtered(dev, attr).trace
    /\ FilterFrame

CallUnsignedFiltered(attr) ==
    /\ accessor' = "device_get_sysattr_unsigned_filtered"
    /\ sysattr' = attr
    /\ result' = [r |-> device_get_sysattr_unsigned_filtered(dev, attr).r, value |-> device_get_sysattr_unsigned_filtered(dev, attr).value]
    /\ trace' = device_get_sysattr_unsigned_filtered(dev, attr).trace
    /\ FilterFrame

CallBoolFiltered(attr) ==
    /\ accessor' = "device_get_sysattr_bool_filtered"
    /\ sysattr' = attr
    /\ result' = [r |-> device_get_sysattr_bool_filtered(dev, attr).r, value |-> device_get_sysattr_bool_filtered(dev, attr).value]
    /\ trace' = device_get_sysattr_bool_filtered(dev, attr).trace
    /\ FilterFrame

CallValueFiltered(attr) ==
    /\ accessor' = "device_get_sysattr_value_filtered"
    /\ sysattr' = attr
    /\ result' = [r |-> device_get_sysattr_value_filtered(dev, attr).r, value |-> device_get_sysattr_value_filtered(dev, attr).value]
    /\ trace' = device_get_sysattr_value_filtered(dev, attr).trace
    /\ FilterFrame

InitFilter ==
    /\ extra = << >> /\ defaultName = s_latest
    /\ IdleFind /\ IdleResolve /\ IdleThreads /\ IdlePolicy
    /\ dev \in Devices
    /\ sysattr = NULL /\ accessor = "none"
    /\ result = [r |-> 0, value |-> NoValue] /\ trace = << >>

NextFilter ==
    \/ \E attr \in Sysattrs : CallAllowed(attr)
    \/ \E attr \in Sysattrs : CallIntFiltered(attr)
    \/ \E attr \in Sysattrs : CallUnsignedFiltered(attr)
    \/ \E attr \in Sysattrs : CallBoolFiltered(attr)
    \/ \E attr \in Sysattrs : CallValueFiltered(attr)

SpecFilter == InitFilter /\ [][NextFilter]_vars

FilteredAccessors ==
    { "device_get_sysattr_int_filtered", "device_get_sysattr_unsigned_filtered",
      "device_get_sysattr_bool_filtered", "device_get_sysattr_value_filtered" }

UnderlyingOf(name) ==
    CASE name = "device_get_sysattr_int_filtered" -> "device_get_sysattr_int"
      [] name = "device_get_sysattr_unsigned_filtered" -> "device_get_sysattr_unsigned"
      [] name = "device_get_sysattr_bool_filtered" -> "device_get_sysattr_bool"
      [] name = "device_get_sysattr_value_filtered" -> "sd_device_get_sysattr_value"

ApplyAccessor(name, d, attr) ==
    CASE name = "device_get_sysattr_int_filtered" -> device_get_sysattr_int_filtered(d, attr)
      [] name = "device_get_sysattr_unsigned_filtered" -> device_get_sysattr_unsigned_filtered(d, attr)
      [] name = "device_get_sysattr_bool_filtered" -> device_get_sysattr_bool_filtered(d, attr)
      [] name = "device_get_sysattr_value_filtered" -> device_get_sysattr_value_filtered(d, attr)

\* The property key of an attribute, spelled out.
RefKey(attr) ==
    CASE attr = s_speed ->
           <<"I","D","_","N","E","T","_","N","A","M","E","_","A","L","L","O","W","_","S","P","E","E","D">>
      [] attr = s_mtu ->
           <<"I","D","_","N","E","T","_","N","A","M","E","_","A","L","L","O","W","_","M","T","U">>

Specific == dev.props[RefKey(sysattr)]
General  == dev.props[s_ID_NET_NAME_ALLOW]

\* The decision of the specification, where no read fails: "error" otherwise.
RefAllowed ==
    IF Specific \in {0, 1} THEN Specific
    ELSE IF Specific = -ENOENT /\ General \in {0, 1} THEN General
    ELSE IF Specific = -ENOENT /\ General = -ENOENT THEN 1
    ELSE -1

UnderlyingReads == { i \in 1..Len(trace) : trace[i].fn # "device_get_property_bool" }

\* C6: naming_sysattr_allowed() gives the boolean of ID_NET_NAME_ALLOW_<ATTR>
\* when that property is present, whatever ID_NET_NAME_ALLOW says; when it is
\* absent, the boolean of ID_NET_NAME_ALLOW, and true when that is absent too.
C6_Allowed ==
    accessor = "naming_sysattr_allowed" =>
        /\ Specific \in {0, 1} => result.r = Specific
        /\ Specific = -ENOENT /\ General \in {0, 1} => result.r = General
        /\ Specific = -ENOENT /\ General = -ENOENT => result.r = 1

\* allowed(device, "speed") was true with ID_NET_NAME_ALLOW=false and
\* ID_NET_NAME_ALLOW_SPEED=true.
C6_Witness ==
    /\ accessor = "naming_sysattr_allowed" /\ sysattr = s_speed
    /\ General = 0 /\ Specific = 1 /\ result.r = 1

\* C7: a filtered accessor on a denied attribute returns -ENOENT without the
\* underlying read, and returns the same for every answer the device could
\* give to that read; on an allowed attribute it returns what the underlying
\* typed read returns.
C7_Hiding ==
    accessor \in FilteredAccessors =>
        /\ RefAllowed = 0 =>
              /\ result = [r |-> -ENOENT, value |-> NoValue]
              /\ UnderlyingReads = {}
              /\ \A ans \in SysattrAnswers :
                    LET other == [dev EXCEPT !.sysattrs[sysattr] = ans]
                        res   == ApplyAccessor(accessor, other, sysattr)
                    IN  res.r = result.r /\ res.value = result.value /\ res.trace = trace
        /\ RefAllowed = 1 =>
              /\ result = dev.sysattrs[sysattr]
              /\ UnderlyingReads = { Len(trace) }
              /\ trace[Len(trace)] = [fn |-> UnderlyingOf(accessor), key |-> sysattr]

\* The boolean accessor was denied "speed" on a device whose speed attribute
\* exists and is readable.
C7_Witness ==
    /\ accessor = "device_get_sysattr_bool_filtered" /\ sysattr = s_speed
    /\ RefAllowed = 0 /\ dev.sysattrs[s_speed].r = 0
    /\ result.r = -ENOENT

\* C10: a failure other than not-present of the per-attribute read is the
\* result, with no other read made; with the per-attribute property absent,
\* such a failure of the ID_NET_NAME_ALLOW read is the result, with no
\* underlying read made.
C10_ErrorsPropagate ==
    accessor # "none" =>
        /\ Specific \notin {0, 1, -ENOENT} =>
              /\ result = [r |-> Specific, value |-> NoValue]
              /\ trace = << PropertyRead(RefKey(sysattr)) >>
        /\ Specific = -ENOENT /\ General \notin {0, 1, -ENOENT} =>
              /\ result = [r |-> General, value |-> NoValue]
              /\ trace = << PropertyRead(RefKey(sysattr)), PropertyRead(s_ID_NET_NAME_ALLOW) >>

\* The string accessor returned the I/O error of the ID_NET_NAME_ALLOW_MTU
\* read on a device that allows by default and has a readable mtu.
C10_Witness ==
    /\ accessor = "device_get_sysattr_value_filtered" /\ sysattr = s_mtu
    /\ Specific = -EIO /\ General = 1 /\ dev.sysattrs[s_mtu].r = 0
    /\ result.r = -EIO

====
